---- MODULE Spec2Model ----
(***************************************************************************)
(* Model of crawlForErrors (check-with-puppeteer.js): the scope test, the  *)
(* FIFO frontier with its visited set and provenance map, the per-page     *)
(* visit (goto, status classification, settle, link extraction, enqueue)   *)
(* and the broken-link list.                                               *)
(*                                                                         *)
(* A URL string is a sequence of lexical atoms ("https://", a host label,  *)
(* "/", "context:", ...), so that String.startsWith, String.includes, the  *)
(* regular expression of line 35 and URL.origin are computed on the text   *)
(* the way the code computes them.                                         *)
(***************************************************************************)
EXTENDS Integers, Sequences, FiniteSets, TLC

\* ------------------------------------------------------------------ bounds
\* The number of <a> elements on the pages of the crawled site, all together.
MaxAnchors == 3

\* The same, for the crawls in which console messages, page errors and
\* sub-resource responses are delivered.
MaxEventAnchors == 1

\* The number of console messages, page errors and sub-resource responses
\* the browser delivers during such a crawl.
MaxEvents == 1

\* ------------------------------------------------------------- URL strings
SeedCtx   == <<"https://", "h", "/", "context:", "p">>
SeedPlain == <<"https://", "h", "/">>
SeedUpper == <<"https://", "H", "/", "context:", "p">>
PageA     == <<"https://", "h", "/", "o:", "p", "/", "1">>
PageB     == <<"https://", "h", "/", "context:", "p", "/", "2">>
PageX     == <<"https://", "h", ".evil", "/", "context:", "p">>
PageO     == <<"https://", "other", "/", "context:", "p">>
PageN     == <<"https://", "h", "/", "about">>
PageF     == <<"https://", "h", "/", "o:", "p", "/", "1", "#", "top">>
PageJ     == <<"javascript:", "void">>

\* The seed URLs a crawl is started with.
Seeds == {SeedCtx, SeedPlain, SeedUpper}

\* The href values the <a> elements of the crawled site's pages may carry:
\* one site per seed, each with a link back to the seed's page, pages inside
\* and outside the scope, and a fragment or javascript: link.
HrefsOf(seed) ==
  IF seed = SeedPlain THEN {SeedPlain, PageA, PageN, PageX, PageO, PageJ}
  ELSE {SeedCtx, PageA, PageB, PageX, PageN, PageF}

\* The URLs of the sub-resources (images, scripts) a page may request.
ResIn    == <<"https://", "h", "/", "context:", "p", "/", "img">>
ResPlain == <<"https://", "h", "/", "style">>
ResOut   == <<"https://", "cdn", "/", "lib">>

ResourceUrls == {ResIn, ResPlain, ResOut}

\* The status codes a sub-resource answers with.
ResourceStatuses == {200, 404}

\* msg.type() of a console message, msg.text() and error.message.
ConsoleTypes == {"error", "warning"}
ConsoleText == "boom"
PageErrorMessage == "oops"

\* page.url() before the first navigation.
AboutBlank == <<"about:blank">>

\* Every URL string of the model.
Urls == Seeds \cup UNION {HrefsOf(s) : s \in Seeds}

\* The sentinel provenance of the seed and the empty string.
START == <<"START">>
EmptyString == <<>>

\* The status field of a BrokenLinkRecord pushed by the catch block.
ERROR == -1

\* The HTTP status codes a navigation answers with.
Statuses == {200, 400, 404}

\* The messages of the errors page.goto and page.evaluate reject with.
GotoMessage == "Navigation timeout"
EvaluateMessage == "Execution context was destroyed"

\* ------------------------------------------------------- string primitives
startsWith(s, p) ==
  /\ Len(p) <= Len(s)
  /\ SubSeq(s, 1, Len(p)) = p

includes(s, p) ==
  \E i \in 0..(Len(s) - Len(p)) : SubSeq(s, i + 1, i + Len(p)) = p

\* The characters that end a URL's authority and the token of line 35.
Delims == {"/", "?", "#"}

\* Lower-casing of the scheme and host, as the URL parser does it.
Lower(a) == IF a = "H" THEN "h" ELSE a

\* Index of the last atom of the maximal delimiter-free run starting at i
\* (i - 1 when the run is empty).
RECURSIVE RunEnd(_, _)
RunEnd(s, i) ==
  IF i > Len(s) \/ s[i] \in Delims THEN i - 1 ELSE RunEnd(s, i + 1)

\* new URL(url).origin: scheme and host, normalised.
Origin(url) ==
  [i \in 1..RunEnd(url, 2) |-> Lower(url[i])]

\* startUrl.match(/context:([^\/\?#]+)/): the positions where the pattern
\* matches; the regular expression takes the leftmost.
MatchPositions(url) ==
  {i \in 1..Len(url) : url[i] = "context:" /\ RunEnd(url, i + 1) >= i + 1}

Min(S) == CHOOSE x \in S : \A y \in S : x <= y

\* projectId, as a one-element-or-empty set (null is the empty set).
ProjectIds(url) ==
  IF MatchPositions(url) = {} THEN {}
  ELSE LET i == Min(MatchPositions(url))
       IN  {SubSeq(url, i + 1, RunEnd(url, i + 1))}

\* allowedPatterns for a seed.
PatternsOf(url) ==
  IF ProjectIds(url) = {} THEN <<>>
  ELSE LET id == CHOOSE t \in ProjectIds(url) : TRUE
       IN  << <<"context:">> \o id, <<"o:">> \o id >>

VARIABLES
  startUrl,        \* the argument of crawlForErrors
  visited,         \* the Set visited, in insertion order
  toVisit,         \* the queue of {url, foundOn}
  urlSources,      \* the Map urlSources
  brokenLinks,     \* the list brokenLinks
  currentPageUrl,  \* the active-page pointer
  pc,              \* position of the loop: "loop", "goto", "settle",
                   \* "evaluate", "done"
  entry,           \* the destructured {url, foundOn} of this iteration
  status,          \* the local status of this iteration
  checkLog,        \* the URLs printed by "Checking [n]: url", in order
  pushed,          \* history: every entry ever put on toVisit, in order
  navResult,       \* history: the outcome of each page's own navigation
  popped,          \* history: every entry toVisit.shift() returned
  site,            \* history: the links each page's document returned
  anchorCount,     \* history: the <a> elements seen so far
  errorsFound,     \* the list errorsFound
  resourceErrors,  \* the list resourceErrors
  docResponse,     \* the status of the response the browser has received
                   \* for the navigation under way (0: none yet)
  paused,          \* history: the URLs whose visit waited the settle timer
  lastEvent,       \* history: the event the last handler run was given
  eventCount,      \* history: the events other than navigation responses
  anchorLimit      \* the number of <a> elements of the crawled site

vars == <<startUrl, visited, toVisit, urlSources, brokenLinks,
          currentPageUrl, pc, entry, status, checkLog, pushed,
          navResult, popped, site, anchorCount, errorsFound,
          resourceErrors, docResponse, paused, lastEvent, eventCount,
          anchorLimit>>

\* The variables only the event handlers write, and those no step writes.
handlerVars == <<errorsFound, resourceErrors, lastEvent, eventCount>>

fixedVars == <<startUrl, anchorLimit>>

\* ------------------------------------------------------ scope derivation
domain == Origin(startUrl)

allowedPatterns == PatternsOf(startUrl)

matchesPattern(url) ==
  \E k \in 1..Len(allowedPatterns) : includes(url, allowedPatterns[k])

shouldCrawl(url) ==
  IF ~startsWith(url, domain) THEN FALSE
  ELSE IF Len(allowedPatterns) > 0 /\ ~matchesPattern(url) THEN FALSE
  ELSE TRUE

\* ------------------------------------------------------------- collections
has(v, url) == \E i \in 1..Len(v) : v[i] = url

add(v, url) == IF has(v, url) THEN v ELSE Append(v, url)

set(m, k, x) == [u \in DOMAIN m \cup {k} |-> IF u = k THEN x ELSE m[u]]

InitialFrontier(s) == << [url |-> s, foundOn |-> START] >>

\* while (toVisit.length > 0): the loop goes on.
LoopCondition_Pair(q) == Len(q) > 1

LoopCondition(q) == Len(q) > 0

\* toVisit.shift(): the entry taken and the queue left.
shift_pop(q) == [item |-> q[Len(q)], rest |-> SubSeq(q, 1, Len(q) - 1)]

shift(q) == [item |-> Head(q), rest |-> Tail(q)]

\* toVisit.push(...) for each of the entries new, in order.
push_front(q, new) == new \o q

push(q, new) == q \o new

\* urlSources.set(url, foundOn) of the visit of entry e.
RecordSource_Url(e) == set(urlSources, e.url, e.url)

RecordSource(e) == set(urlSources, e.url, e.foundOn)

\* The guard of the link extraction.
LoadedOk_Always(st) == TRUE

LoadedOk(st) == st < 400

\* The condition of the continue of the loop head.
SkipEntry_VisitedOnly(e) == has(visited, e.url)

SkipEntry_ScopeOnly(e) == ~shouldCrawl(e.url)

SkipEntry(e) == has(visited, e.url) \/ ~shouldCrawl(e.url)

\* The filter of the page.evaluate callback.
KeepHref(href) == ~includes(href, <<"#">>) /\ ~includes(href, <<"javascript:">>)

ExtractLinks(anchors) == SelectSeq(anchors, KeepHref)

\* The guard of the enqueue loop.
NewLink_ScopeOnly(link) == shouldCrawl(link)

NewLink(link) == ~has(visited, link) /\ shouldCrawl(link)

\* The entries the enqueue loop pushes for the links of page url.
RECURSIVE NewEntries_SelfSource(_, _)
NewEntries_SelfSource(links, url) ==
  IF links = <<>> THEN <<>>
  ELSE (IF NewLink(Head(links))
        THEN << [url |-> Head(links), foundOn |-> Head(links)] >>
        ELSE <<>>) \o NewEntries_SelfSource(Tail(links), url)

RECURSIVE NewEntries(_, _)
NewEntries(links, url) ==
  IF links = <<>> THEN <<>>
  ELSE (IF NewLink(Head(links))
        THEN << [url |-> Head(links), foundOn |-> url] >>
        ELSE <<>>) \o NewEntries(Tail(links), url)

BrokenLink_UrlAsSource(e, st, msg) ==
  [url |-> e.url, foundOn |-> e.url, status |-> st, error |-> msg]

BrokenLink(e, st, msg) ==
  [url |-> e.url, foundOn |-> e.foundOn, status |-> st, error |-> msg]

\* The records the status classification pushes (the if / else-if chain).
Classify_NoElse(e, st) ==
  (IF st = 404 THEN << BrokenLink(e, 404, "Page not found") >> ELSE <<>>)
  \o (IF st >= 400 THEN << BrokenLink(e, st, "HTTP error") >> ELSE <<>>)

Classify(e, st) ==
  IF st = 404 THEN << BrokenLink(e, 404, "Page not found") >>
  ELSE IF st >= 400 THEN << BrokenLink(e, st, "HTTP error") >>
  ELSE <<>>

\* The lists of <a> elements a document may hold.
AnchorLists ==
  UNION {[1..n -> HrefsOf(startUrl)] : n \in 0..(anchorLimit - anchorCount)}

NoEntry == [url |-> EmptyString, foundOn |-> EmptyString]

\* Where the loop goes after the status classification: the settle timer.
AfterClassify_OkOnly(st) == IF st < 400 THEN "settle" ELSE "loop"

AfterClassify(st) == "settle"

\* ---------------------------------------------------------- event handlers
\* currentPageUrl || page.url(): the page a console record is filed under.
ActivePage_Blank == AboutBlank

ActivePage ==
  IF currentPageUrl # EmptyString THEN currentPageUrl ELSE AboutBlank

\* The callback of page.on('console'): errorsFound after the message.
onConsole(type, text) ==
  IF type = "error"
  THEN Append(errorsFound, [url |-> ActivePage, error |-> <<text>>])
  ELSE errorsFound

\* The callback of page.on('pageerror'): errorsFound after the exception.
onPageError(message) ==
  Append(errorsFound,
         [url |-> ActivePage, error |-> <<"PAGE ERROR: ", message>>])

\* The callback of page.on('response'): resourceErrors after the response.
onResponse_SelfPage(st, resourceUrl) ==
  IF st = 404 /\ startsWith(resourceUrl, domain)
  THEN IF Len(allowedPatterns) = 0 \/ matchesPattern(resourceUrl)
       THEN Append(resourceErrors,
                   [resourceUrl |-> resourceUrl, pageUrl |-> resourceUrl,
                    status |-> 404])
       ELSE resourceErrors
  ELSE resourceErrors

onResponse_SkipDocument(st, resourceUrl) ==
  IF st = 404 /\ startsWith(resourceUrl, domain)
  THEN IF (Len(allowedPatterns) = 0 \/ matchesPattern(resourceUrl))
          /\ resourceUrl # currentPageUrl
       THEN Append(resourceErrors,
                   [resourceUrl |-> resourceUrl, pageUrl |-> currentPageUrl,
                    status |-> 404])
       ELSE resourceErrors
  ELSE resourceErrors

onResponse_NoPattern(st, resourceUrl) ==
  IF st = 404 /\ startsWith(resourceUrl, domain)
  THEN Append(resourceErrors,
              [resourceUrl |-> resourceUrl, pageUrl |-> currentPageUrl,
               status |-> 404])
  ELSE resourceErrors

onResponse(st, resourceUrl) ==
  IF st = 404 /\ startsWith(resourceUrl, domain)
  THEN IF Len(allowedPatterns) = 0 \/ matchesPattern(resourceUrl)
       THEN Append(resourceErrors,
                   [resourceUrl |-> resourceUrl, pageUrl |-> currentPageUrl,
                    status |-> 404])
       ELSE resourceErrors
  ELSE resourceErrors

\* The loop is suspended at an await (page.goto, the settle timer,
\* page.evaluate, browser.close), so that a handler may run.
Awaiting == pc \in {"goto", "settle", "evaluate", "done"}

\* The URL whose visit is under way (the empty string after the loop).
VisitUnderWay ==
  IF pc \in {"goto", "settle", "evaluate"} THEN entry.url ELSE EmptyString

\* What a handler run was given: the event, the page whose load caused it
\* and the visit under way when the handler ran.
Event(kind, url, st, type, cause) ==
  [kind |-> kind, url |-> url, status |-> st, type |-> type,
   cause |-> cause, during |-> VisitUnderWay]

NoEvent ==
  [kind |-> "none", url |-> EmptyString, status |-> 0, type |-> "",
   cause |-> EmptyString, during |-> EmptyString]

\* ------------------------------------------------------------------- Init
\* The state after lines 18-102, for a site of at most limit <a> elements.
Begin(limit) ==
  /\ startUrl \in Seeds
  /\ visited = <<>>
  /\ toVisit = InitialFrontier(startUrl)
  /\ urlSources = << >>
  /\ brokenLinks = <<>>
  /\ currentPageUrl = EmptyString
  /\ pc = "loop"
  /\ entry = NoEntry
  /\ status = 0
  /\ checkLog = <<>>
  /\ pushed = InitialFrontier(startUrl)
  /\ navResult = << >>
  /\ popped = <<>>
  /\ site = << >>
  /\ anchorCount = 0
  /\ errorsFound = <<>>
  /\ resourceErrors = <<>>
  /\ docResponse = 0
  /\ paused = <<>>
  /\ lastEvent = NoEvent
  /\ eventCount = 0
  /\ anchorLimit = limit

Init == Begin(MaxAnchors)

InitEvents == Begin(MaxEventAnchors)

\* ---------------------------------------------------------------- actions
\* Loop head, the popped entry is already visited or out of scope: continue.
PopSkip ==
  /\ pc = "loop"
  /\ LoopCondition(toVisit)
  /\ SkipEntry(shift(toVisit).item)
  /\ toVisit' = shift(toVisit).rest
  /\ popped' = Append(popped, shift(toVisit).item)
  /\ UNCHANGED <<visited, urlSources, brokenLinks, currentPageUrl,
                 pc, entry, status, checkLog, pushed, navResult, site,
                 anchorCount, docResponse, paused>>
  /\ UNCHANGED <<handlerVars, fixedVars>>

\* Loop head, the popped entry is visited: mark, record the provenance, set
\* the active page, print the progress line and call page.goto.
PopVisit ==
  /\ pc = "loop"
  /\ LoopCondition(toVisit)
  /\ ~SkipEntry(shift(toVisit).item)
  /\ LET e == shift(toVisit).item IN
       /\ toVisit' = shift(toVisit).rest
       /\ popped' = Append(popped, e)
       /\ entry' = e
       /\ visited' = add(visited, e.url)
       /\ urlSources' = RecordSource(e)
       /\ currentPageUrl' = e.url
       /\ checkLog' = Append(checkLog, e.url)
  /\ pc' = "goto"
  /\ UNCHANGED <<brokenLinks, status, pushed, navResult, site,
                 anchorCount, docResponse, paused>>
  /\ UNCHANGED <<handlerVars, fixedVars>>

\* The browser receives the response of the navigation itself and emits
\* 'response' for it, before page.goto resolves: the response handler runs.
NavResponse ==
  /\ pc = "goto"
  /\ docResponse = 0
  /\ \E st \in Statuses :
       /\ docResponse' = st
       /\ resourceErrors' = onResponse(st, entry.url)
       /\ lastEvent' = Event("response", entry.url, st, "", entry.url)
  /\ UNCHANGED <<visited, toVisit, urlSources, brokenLinks, currentPageUrl,
                 pc, entry, status, checkLog, pushed, navResult, popped,
                 site, anchorCount, paused, errorsFound, eventCount>>
  /\ UNCHANGED fixedVars

\* page.goto resolves with that response: classify its status, start the
\* settle timer.
GotoReturns ==
  /\ pc = "goto"
  /\ docResponse # 0
  /\ status' = docResponse
  /\ brokenLinks' = brokenLinks \o Classify(entry, docResponse)
  /\ navResult' = set(navResult, entry.url, docResponse)
  /\ pc' = AfterClassify(docResponse)
  /\ docResponse' = 0
  /\ UNCHANGED <<visited, toVisit, urlSources, currentPageUrl,
                 entry, checkLog, pushed, popped, site, anchorCount, paused>>
  /\ UNCHANGED <<handlerVars, fixedVars>>

\* page.goto rejects (timeout, transport failure): the catch block.
GotoThrows ==
  /\ pc = "goto"
  /\ brokenLinks' = Append(brokenLinks, BrokenLink(entry, ERROR, GotoMessage))
  /\ navResult' = set(navResult, entry.url, ERROR)
  /\ pc' = "loop"
  /\ docResponse' = 0
  /\ UNCHANGED <<visited, toVisit, urlSources, currentPageUrl, entry,
                 status, checkLog, pushed, popped, site, anchorCount, paused>>
  /\ UNCHANGED <<handlerVars, fixedVars>>

\* The settle timer fires; links are extracted only when status < 400.
Settle ==
  /\ pc = "settle"
  /\ pc' = IF LoadedOk(status) THEN "evaluate" ELSE "loop"
  /\ paused' = Append(paused, entry.url)
  /\ UNCHANGED <<visited, toVisit, urlSources, brokenLinks,
                 currentPageUrl, entry, status, checkLog, pushed, popped,
                 navResult, site, anchorCount, docResponse>>
  /\ UNCHANGED <<handlerVars, fixedVars>>

\* page.evaluate resolves with the filtered hrefs: the enqueue loop.
EvaluateReturns ==
  /\ pc = "evaluate"
  /\ \E anchors \in AnchorLists :
       LET links == ExtractLinks(anchors)
           new == NewEntries(links, entry.url)
       IN  /\ toVisit' = push(toVisit, new)
           /\ pushed' = pushed \o new
           /\ site' = set(site, entry.url, {links[i] : i \in 1..Len(links)})
           /\ anchorCount' = anchorCount + Len(anchors)
  /\ pc' = "loop"
  /\ UNCHANGED <<visited, urlSources, brokenLinks, currentPageUrl, entry,
                 status, checkLog, navResult, popped, docResponse, paused>>
  /\ UNCHANGED <<handlerVars, fixedVars>>

\* page.evaluate rejects: the same catch block.
EvaluateThrows ==
  /\ pc = "evaluate"
  /\ brokenLinks' =
       Append(brokenLinks, BrokenLink(entry, ERROR, EvaluateMessage))
  /\ pc' = "loop"
  /\ UNCHANGED <<visited, toVisit, urlSources, currentPageUrl, entry,
                 status, checkLog, pushed, popped, navResult, site,
                 anchorCount, docResponse, paused>>
  /\ UNCHANGED <<handlerVars, fixedVars>>

\* The queue is empty: the loop ends and browser.close() is awaited.
Finish ==
  /\ pc = "loop"
  /\ ~LoopCondition(toVisit)
  /\ pc' = "done"
  /\ UNCHANGED <<visited, toVisit, urlSources, brokenLinks,
                 currentPageUrl, entry, status, checkLog, pushed, popped,
                 navResult, site, anchorCount, docResponse, paused>>
  /\ UNCHANGED <<handlerVars, fixedVars>>

\* What a handler run leaves alone.
LoopUnchanged ==
  UNCHANGED <<visited, toVisit, urlSources, brokenLinks, currentPageUrl,
              pc, entry, status, checkLog, pushed, navResult, popped, site,
              anchorCount, docResponse, paused, fixedVars>>

\* A console message of some page arrives while the loop is suspended.
OnConsole ==
  /\ Awaiting
  /\ eventCount < MaxEvents
  /\ \E type \in ConsoleTypes, cause \in {visited[i] : i \in 1..Len(visited)} :
       /\ errorsFound' = onConsole(type, ConsoleText)
       /\ lastEvent' = Event("console", EmptyString, 0, type, cause)
  /\ eventCount' = eventCount + 1
  /\ UNCHANGED resourceErrors
  /\ LoopUnchanged

\* An uncaught exception of some page arrives while the loop is suspended.
OnPageError ==
  /\ Awaiting
  /\ eventCount < MaxEvents
  /\ \E cause \in {visited[i] : i \in 1..Len(visited)} :
       /\ errorsFound' = onPageError(PageErrorMessage)
       /\ lastEvent' = Event("pageerror", EmptyString, 0, "", cause)
  /\ eventCount' = eventCount + 1
  /\ UNCHANGED resourceErrors
  /\ LoopUnchanged

\* The response of a sub-resource of some page arrives while the loop is
\* suspended.
OnResponse ==
  /\ Awaiting
  /\ eventCount < MaxEvents
  /\ \E resourceUrl \in ResourceUrls, st \in ResourceStatuses,
        cause \in {visited[i] : i \in 1..Len(visited)} :
       /\ resourceErrors' = onResponse(st, resourceUrl)
       /\ lastEvent' = Event("response", resourceUrl, st, "", cause)
  /\ eventCount' = eventCount + 1
  /\ UNCHANGED errorsFound
  /\ LoopUnchanged

\* The loop with the navigation's own response; no other event arrives.
Next ==
  \/ PopSkip
  \/ PopVisit
  \/ NavResponse
  \/ GotoReturns
  \/ GotoThrows
  \/ Settle
  \/ EvaluateReturns
  \/ EvaluateThrows
  \/ Finish

Spec == Init /\ [][Next]_vars

\* Every await of the loop resolves (page.goto returns or throws at its
\* timeout, the pause elapses, page.evaluate settles) and the loop goes on.
FairSpec == Init /\ [][Next]_vars /\ WF_vars(Next)

\* The loop and the three handlers, on a smaller site.
NextEvents ==
  \/ PopSkip
  \/ PopVisit
  \/ NavResponse
  \/ GotoReturns
  \/ GotoThrows
  \/ Settle
  \/ EvaluateReturns
  \/ EvaluateThrows
  \/ Finish
  \/ OnConsole
  \/ OnPageError
  \/ OnResponse

SpecEvents == InitEvents /\ [][NextEvents]_vars

\* ------------------------------------------------- vocabulary of the claims
Elems(q) == {q[i] : i \in 1..Len(q)}

\* Number of positions of the list q whose element satisfies Test.
Count(q, Test(_)) == Cardinality({i \in 1..Len(q) : Test(q[i])})

\* The position of url in the list v (url occurs in v).
IndexOf(v, url) == CHOOSE i \in 1..Len(v) : v[i] = url

TimesVisited(url) == Cardinality({i \in 1..Len(checkLog) : checkLog[i] = url})

TimesPushed(url) == Cardinality({i \in 1..Len(pushed) : pushed[i].url = url})

RecordsOf(url) ==
  Cardinality({i \in 1..Len(brokenLinks) : brokenLinks[i].url = url})

\* The position in pushed of the first entry enqueued for url.
FirstPush(url) == Min({i \in 1..Len(pushed) : pushed[i].url = url})

\* The pages within k links of the seed, following the links of the pages
\* whose documents were read.
RECURSIVE Within(_)
Within(k) ==
  IF k = 0 THEN {startUrl}
  ELSE LET near == Within(k - 1)
       IN  near \cup UNION {site[p] : p \in near \cap DOMAIN site}

\* Link distance of a visited page from the seed.
Dist(url) == Min({k \in 0..Len(visited) : url \in Within(k)})

Last(q) == q[Len(q)]

\* A step appended exactly one element to the list q.
Appended(q, qNext) ==
  /\ Len(qNext) = Len(q) + 1
  /\ SubSeq(qNext, 1, Len(q)) = q

\* The pages whose own navigation is known to have failed.
NavFailed(url) ==
  /\ url \in DOMAIN navResult
  /\ (navResult[url] >= 400 \/ navResult[url] = ERROR)

\* ------------------------------------------------------------------ claims

\* C1: every URL ever enqueued on toVisit, the seed included, satisfies
\* shouldCrawl, and so does every URL in visited.
C1_ScopeClosure ==
  /\ \A i \in 1..Len(pushed) : shouldCrawl(pushed[i].url)
  /\ \A i \in 1..Len(visited) : shouldCrawl(visited[i])

\* C2: no URL is popped and processed as a visit more than once, however
\* often it was pushed; each visit adds one URL to visited.
C2_AtMostOnceVisit ==
  /\ \A u \in Urls : TimesVisited(u) <= 1
  /\ visited = checkLog

C2_Witness ==
  /\ pc = "done"
  /\ \E u \in Urls : TimesPushed(u) >= 2 /\ TimesVisited(u) = 1

\* C3: the keys of urlSources are exactly the visited URLs, each visited URL
\* occurring once, and the start URL, once visited, maps to START for good.
C3_ProvenanceComplete ==
  /\ DOMAIN urlSources = Elems(visited)
  /\ Cardinality(Elems(visited)) = Len(visited)
  /\ has(visited, startUrl) => urlSources[startUrl] = START

C3_Witness ==
  /\ pc = "done"
  /\ Len(visited) >= 3
  /\ \E p \in DOMAIN site : p # startUrl /\ startUrl \in site[p]

\* C4: a visited URL other than the seed has its urlSources page visited
\* strictly before it; a URL that only page b ever enqueued is visited after b.
C4_SourceVisitedFirst ==
  /\ \A u \in Elems(visited) :
       urlSources[u] # START =>
         /\ has(visited, urlSources[u])
         /\ IndexOf(visited, urlSources[u]) < IndexOf(visited, u)
  /\ \A a \in Elems(visited), b \in Urls :
       (\A i \in 1..Len(pushed) :
          pushed[i].url = a => pushed[i].foundOn = b) =>
         /\ has(visited, b)
         /\ IndexOf(visited, b) < IndexOf(visited, a)

C4_Witness ==
  /\ pc = "done"
  /\ \E u \in Elems(visited) :
       /\ urlSources[u] # START
       /\ urlSources[urlSources[u]] # START

\* C5: the queue is first-in first-out (the entries taken so far, followed
\* by the entries waiting, are the entries enqueued, in order), two visited
\* URLs are visited in the order their entries were enqueued, and pages are
\* visited in non-decreasing order of link distance from the seed.
C5_FifoOrder ==
  /\ popped \o toVisit = pushed
  /\ \A i \in 1..(Len(visited) - 1) :
       FirstPush(visited[i]) < FirstPush(visited[i + 1])
  /\ \A i \in 1..(Len(visited) - 1) :
       Dist(visited[i]) <= Dist(visited[i + 1])

C5_Witness ==
  /\ pc = "done"
  /\ Len(visited) = 4
  /\ Dist(visited[2]) = 1
  /\ Dist(visited[3]) = 1
  /\ Dist(visited[4]) = 2
  /\ urlSources[visited[4]] = visited[2]

\* C6: no URL ever has more than one BrokenLinkRecord, and a URL pushed
\* twice or more ends the crawl visited exactly once.
C6_IdempotentRediscovery ==
  /\ \A u \in Urls : RecordsOf(u) <= 1
  /\ pc = "done" =>
       \A u \in Urls : TimesPushed(u) >= 2 => TimesVisited(u) = 1

C6_Witness ==
  /\ pc = "done"
  /\ \E u \in Urls : TimesPushed(u) >= 2 /\ RecordsOf(u) = 1

\* C7: a visited URL occurs once in visited and its urlSources value is the
\* foundOn of the first entry enqueued for it, which is the first page, in
\* visit order, whose document linked to it before it was visited.
C7_FirstDiscovery ==
  \A c \in Elems(visited) :
    /\ Count(visited, LAMBDA v : v = c) = 1
    /\ \E i \in 1..Len(pushed) :
         /\ pushed[i].url = c
         /\ \A k \in 1..(i - 1) : pushed[k].url # c
         /\ urlSources[c] = pushed[i].foundOn
    /\ urlSources[c] # START =>
         /\ urlSources[c] \in DOMAIN site
         /\ c \in site[urlSources[c]]
         /\ \A p \in DOMAIN site :
              c \in site[p] =>
                IndexOf(visited, urlSources[c]) <= IndexOf(visited, p)

C7_Witness ==
  /\ pc = "done"
  /\ \E c \in Elems(visited) :
       \E i, j \in 1..Len(pushed) :
         /\ pushed[i].url = c
         /\ pushed[j].url = c
         /\ pushed[i].foundOn # pushed[j].foundOn

\* C8: shouldCrawl(url) is true exactly when the URL's origin equals the
\* seed's origin and, if the seed held context:<token>, the URL contains
\* context:<token> or o:<token>.
C8_ScopeTestCorrect ==
  \A u \in Urls :
    shouldCrawl(u) <=>
      /\ Origin(u) = Origin(startUrl)
      /\ \/ ProjectIds(startUrl) = {}
         \/ \E id \in ProjectIds(startUrl) :
              \/ includes(u, <<"context:">> \o id)
              \/ includes(u, <<"o:">> \o id)

\* C9: when the crawl ends, a visited URL has a BrokenLinkRecord exactly
\* when its own navigation answered status >= 400 or failed.
C9_BrokenLinkExact ==
  pc = "done" =>
    \A u \in Elems(visited) : (RecordsOf(u) >= 1) <=> NavFailed(u)

\* C10: a page whose navigation failed has no links read or enqueued, has
\* its record with the foundOn of its entry, and the loop goes on: when the
\* crawl ends every entry ever enqueued has been taken from the queue.
C10_FailedPageNoLinks ==
  /\ \A u \in Elems(visited) :
       NavFailed(u) =>
         /\ u \notin DOMAIN site
         /\ \A i \in 1..Len(pushed) : pushed[i].foundOn # u
         /\ \E i \in 1..Len(brokenLinks) :
              /\ brokenLinks[i].url = u
              /\ brokenLinks[i].foundOn = urlSources[u]
              /\ brokenLinks[i].status = navResult[u]
              /\ u = startUrl => brokenLinks[i].foundOn = START
  /\ pc = "done" => toVisit = <<>> /\ popped = pushed

C10_Witness ==
  /\ pc = "done"
  /\ Len(visited) >= 3
  /\ ~NavFailed(startUrl)
  /\ navResult[visited[2]] = ERROR
  /\ navResult[visited[3]] = 404

\* C11 (as claimed): the settle pause is taken only in a visit whose
\* navigation answered a status below 400.
C11_PauseOnSuccessOnly ==
  \A i \in 1..Len(paused) :
    /\ paused[i] \in DOMAIN navResult
    /\ navResult[paused[i]] \in Statuses
    /\ navResult[paused[i]] < 400

\* C11 (amended): the settle pause is taken in every visit whose page.goto
\* resolved with a response, whatever its status, and in no visit whose
\* page.goto threw.
C11_PauseAfterResponse ==
  /\ \A i \in 1..Len(paused) :
       /\ paused[i] \in DOMAIN navResult
       /\ navResult[paused[i]] # ERROR
  /\ \A u \in DOMAIN navResult :
       (navResult[u] # ERROR /\ ~(pc = "settle" /\ entry.url = u)) =>
         has(paused, u)

C11_Witness ==
  /\ pc = "done"
  /\ \E u \in Elems(paused) : navResult[u] = 404
  /\ \E u \in Elems(paused) : navResult[u] = 200
  /\ \E u \in DOMAIN navResult : navResult[u] = ERROR

\* C12 (as claimed): currentPageUrl is the URL being visited from before the
\* navigation starts, and every console, page-error and resource record is
\* filed under the URL whose visit was under way when its handler ran.
C12_RecordsCarryVisit ==
  [][/\ VisitUnderWay' # EmptyString => currentPageUrl' = VisitUnderWay'
     /\ errorsFound' # errorsFound =>
          /\ Appended(errorsFound, errorsFound')
          /\ Last(errorsFound').url = lastEvent'.during
          /\ has(visited, Last(errorsFound').url)
     /\ resourceErrors' # resourceErrors =>
          /\ Appended(resourceErrors, resourceErrors')
          /\ Last(resourceErrors').pageUrl = lastEvent'.during
          /\ has(visited, Last(resourceErrors').pageUrl)]_vars

\* C12 (amended): the same, except that a record filed after the loop has
\* ended (while browser.close() is awaited) carries the URL of the last
\* visit; no record carries the empty string or an unvisited URL.
C12_RecordsCarryPointer ==
  [][/\ VisitUnderWay' # EmptyString => currentPageUrl' = VisitUnderWay'
     /\ errorsFound' # errorsFound =>
          /\ Appended(errorsFound, errorsFound')
          /\ Last(errorsFound').url =
               (IF lastEvent'.during # EmptyString THEN lastEvent'.during
                ELSE Last(visited))
          /\ has(visited, Last(errorsFound').url)
     /\ resourceErrors' # resourceErrors =>
          /\ Appended(resourceErrors, resourceErrors')
          /\ Last(resourceErrors').pageUrl =
               (IF lastEvent'.during # EmptyString THEN lastEvent'.during
                ELSE Last(visited))
          /\ has(visited, Last(resourceErrors').pageUrl)]_vars

C12_Witness ==
  /\ pc = "done"
  /\ Len(visited) = 2
  /\ lastEvent.kind = "pageerror"
  /\ lastEvent.during = EmptyString
  /\ Len(errorsFound) = 1
  /\ errorsFound[1].url = visited[2]
  /\ Len(resourceErrors) = 1
  /\ resourceErrors[1].pageUrl = visited[2]

\* C13: a handler files its record under currentPageUrl, whatever page
\* caused the event; when the two differ the cause is a page visited before
\* the page the record carries (the loop had moved on when the event came).
C13_LateEventMisfiled ==
  [][/\ errorsFound' # errorsFound =>
          /\ Last(errorsFound').url = currentPageUrl
          /\ lastEvent'.cause # currentPageUrl =>
               IndexOf(visited, lastEvent'.cause)
                 < IndexOf(visited, Last(errorsFound').url)
     /\ resourceErrors' # resourceErrors =>
          /\ Last(resourceErrors').pageUrl = currentPageUrl
          /\ lastEvent'.cause # currentPageUrl =>
               IndexOf(visited, lastEvent'.cause)
                 < IndexOf(visited, Last(resourceErrors').pageUrl)]_vars

\* A 404 of a sub-resource of the first page arrives during the navigation
\* to the second page and is filed under the second page.
C13_Witness ==
  /\ pc = "goto"
  /\ Len(visited) = 2
  /\ lastEvent.kind = "response"
  /\ lastEvent.url \in ResourceUrls
  /\ lastEvent.cause = visited[1]
  /\ lastEvent.during = visited[2]
  /\ Len(resourceErrors) = 1
  /\ resourceErrors[1].resourceUrl = lastEvent.url
  /\ resourceErrors[1].pageUrl = visited[2]

C16_Termination ==
  /\ [](\A u \in Urls : TimesVisited(u) <= 1)
  /\ <>(pc = "done" /\ Len(toVisit) = 0)

C16_Witness ==
  /\ pc = "done"
  /\ Len(toVisit) = 0
  /\ Len(visited) = 2
  /\ DOMAIN site = {visited[1], visited[2]}
  /\ visited[1] \in site[visited[1]]
  /\ visited[2] \in site[visited[1]]
  /\ visited[1] \in site[visited[2]]

\* C17 (as stated): every entry waiting in the frontier has a URL that passes
\* the scope test and is not in the visited set. Taken for the seeds that
\* pass their own scope test, so that the seed entry is no exception.
C17_FrontierFresh ==
  shouldCrawl(startUrl) =>
    \A i \in 1..Len(toVisit) :
      /\ shouldCrawl(toVisit[i].url)
      /\ ~has(visited, toVisit[i].url)

\* C17 (amended): every entry a step pushes passed the scope test and was not
\* in the visited set when it was pushed, and every waiting entry is such an
\* entry or the seed entry; an entry may wait while its URL is visited.
C17_FreshWhenPushed ==
  [][/\ \A i \in (Len(pushed) + 1)..Len(pushed') :
          /\ shouldCrawl(pushed'[i].url)
          /\ ~has(visited, pushed'[i].url)
     /\ \A i \in 1..Len(toVisit') : toVisit'[i] \in Elems(pushed')]_vars

C17_Witness ==
  \E i \in 1..Len(toVisit) :
    /\ toVisit[i].foundOn # START
    /\ shouldCrawl(toVisit[i].url)
    /\ has(visited, toVisit[i].url)

\* C18: a loop step whose popped entry is already visited or fails the scope
\* test removes the head of the queue and nothing else: visited, urlSources,
\* brokenLinks, both error lists and the active page stay as they were, no
\* progress line is printed and the loop is back at its head.
C18_DiscardIsNoOp ==
  [][(/\ pc = "loop"
      /\ LoopCondition(toVisit)
      /\ \/ has(visited, Head(toVisit).url)
         \/ ~shouldCrawl(Head(toVisit).url))
     => /\ toVisit' = Tail(toVisit)
        /\ pc' = "loop"
        /\ UNCHANGED <<visited, urlSources, brokenLinks, errorsFound,
                       resourceErrors, currentPageUrl, checkLog,
                       docResponse>>]_vars

C18_Witness ==
  /\ pc = "loop"
  /\ Len(popped) = 3
  /\ Len(checkLog) = 2
  /\ Last(popped).url = checkLog[2]
  /\ Len(brokenLinks) = 1
  /\ Len(resourceErrors) = 1
  /\ currentPageUrl = checkLog[2]

\* The scope the claims speak of: the origin of the URL is the seed's origin
\* and, if the seed named a project, the URL names it too.
InScope(u) ==
  /\ Origin(u) = Origin(startUrl)
  /\ \/ ProjectIds(startUrl) = {}
     \/ \E id \in ProjectIds(startUrl) :
          \/ includes(u, <<"context:">> \o id)
          \/ includes(u, <<"o:">> \o id)

\* The in-scope links extracted from the pages of S that loaded with a
\* status below 400.
LinksFrom(S) ==
  UNION { {l \in site[u] : InScope(l)} :
            u \in {v \in S \cap DOMAIN site :
                     v \in DOMAIN navResult /\ LoadedOk(navResult[v])} }

\* The URLs reachable from the set S by following such links.
RECURSIVE Closure(_)
Closure(S) ==
  LET T == S \cup LinksFrom(S)
  IN  IF T = S THEN S ELSE Closure(T)

\* C19: when the crawl is done, the visited set is exactly the set of URLs
\* reachable from the seed over in-scope links of pages that loaded with a
\* status below 400.
C19_CrawlComplete ==
  pc = "done" => Elems(visited) = Closure({startUrl})

\* C20: every BrokenLinkRecord is about a visited URL and carries the source
\* urlSources holds for it; the source of a record that is not the seed's is
\* itself visited and has no BrokenLinkRecord of status >= 400.
C20_ProvenanceConsistent ==
  \A i \in 1..Len(brokenLinks) :
    LET r == brokenLinks[i] IN
      /\ has(visited, r.url)
      /\ r.url \in DOMAIN urlSources
      /\ r.foundOn = urlSources[r.url]
      /\ r.foundOn # START =>
           /\ has(visited, r.foundOn)
           /\ \A j \in 1..Len(brokenLinks) :
                brokenLinks[j].url = r.foundOn =>
                  ~(brokenLinks[j].status >= 400)

C20_Witness ==
  /\ pc = "done"
  /\ Len(brokenLinks) = 2
  /\ brokenLinks[1].foundOn = startUrl
  /\ brokenLinks[2].foundOn = brokenLinks[1].foundOn
  /\ brokenLinks[1].status = 404
  /\ brokenLinks[2].status = ERROR
====
